---- MODULE Spec2Model ----
(***************************************************************************)
(* Model of bldc_model.py: the analytical BLDC motor model motor_model     *)
(* and the constants main() calls it with.                                 *)
(*                                                                         *)
(* Numbers.  A float of the program is modelled by its exact real value,   *)
(* or by one of the IEEE specials the array operations of numpy produce:  *)
(*   [k |-> "fin", n, d, p]   the real number (n / d) * pi^p, in lowest    *)
(*                            terms, d > 0 (zero is 0/1 * pi^0);           *)
(*   [k |-> "inf", n |-> +-1] plus or minus infinity;                      *)
(*   [k |-> "nan"]            not-a-number.                                *)
(* Rounding of finite results is not modelled: arithmetic is exact.        *)
(***************************************************************************)
EXTENDS Integers, Sequences, FiniteSets, TLC

\* ------------------------------------------------------------------------
\* Exact arithmetic
\* ------------------------------------------------------------------------

Abs(a) == IF a < 0 THEN -a ELSE a

RECURSIVE GCD(_, _)
GCD(a, b) == IF b = 0 THEN a ELSE GCD(b, a % b)

NaN == [k |-> "nan", n |-> 0, d |-> 1, p |-> 0]

Inf(s) == [k |-> "inf", n |-> s, d |-> 1, p |-> 0]

\* (n / d) * pi^p in lowest terms; d > 0.
Fin(n, d, p) ==
    IF n = 0 THEN [k |-> "fin", n |-> 0, d |-> 1, p |-> 0]
    ELSE LET g == GCD(Abs(n), d)
         IN  [k |-> "fin", n |-> n \div g, d |-> d \div g, p |-> p]

Q(n, d) == Fin(n, d, 0)

IsNaN(x) == x.k = "nan"

IsFin(x) == x.k = "fin"

IsZero(x) == x.k = "fin" /\ x.n = 0

Sign(x) == IF x.n > 0 THEN 1 ELSE IF x.n < 0 THEN -1 ELSE 0

Neg(x) == [x EXCEPT !.n = -x.n]

\* IEEE multiplication (the program's zeros are positive zeros).
Mul(x, y) ==
    IF IsNaN(x) \/ IsNaN(y) THEN NaN
    ELSE IF IsFin(x) /\ IsFin(y) THEN
        LET g1 == GCD(Abs(x.n), y.d)
            g2 == GCD(Abs(y.n), x.d)
        IN  Fin((x.n \div g1) * (y.n \div g2), (x.d \div g2) * (y.d \div g1), x.p + y.p)
    ELSE IF IsZero(x) \/ IsZero(y) THEN NaN
    ELSE Inf(Sign(x) * Sign(y))

\* IEEE division as numpy's true_divide performs it: x / 0 is an infinity
\* or NaN, never an exception.
Div(x, y) ==
    IF IsNaN(x) \/ IsNaN(y) THEN NaN
    ELSE IF IsFin(x) /\ IsFin(y) THEN
        IF y.n = 0 THEN (IF x.n = 0 THEN NaN ELSE Inf(Sign(x)))
        ELSE LET s  == Sign(y)
                 g1 == GCD(Abs(x.n), Abs(y.n))
                 g2 == GCD(x.d, y.d)
             IN  Fin(s * (x.n \div g1) * (y.d \div g2),
                     (x.d \div g2) * (Abs(y.n) \div g1), x.p - y.p)
    ELSE IF IsFin(x) THEN Q(0, 1)
    ELSE IF IsFin(y) THEN Inf(Sign(x) * (IF Sign(y) < 0 THEN -1 ELSE 1))
    ELSE NaN

\* IEEE addition.  Two finite non-zero terms have the same power of pi in
\* every sum the program forms.
Add(x, y) ==
    IF IsNaN(x) \/ IsNaN(y) THEN NaN
    ELSE IF IsFin(x) /\ IsFin(y) THEN
        CASE x.n = 0 -> y
          [] y.n = 0 -> x
          [] x.n # 0 /\ y.n # 0 /\ x.p = y.p ->
                LET g == GCD(x.d, y.d)
                IN  Fin(x.n * (y.d \div g) + y.n * (x.d \div g), (x.d \div g) * y.d, x.p)
    ELSE IF IsFin(x) THEN y
    ELSE IF IsFin(y) THEN x
    ELSE IF x.n = y.n THEN x ELSE NaN

Sub(x, y) == Add(x, Neg(y))

\* a/b < c/d for b, d > 0, by comparing continued-fraction expansions.
RECURSIVE LtFrac(_, _, _, _)
LtFrac(a, b, c, d) ==
    LET qa == a \div b
        qc == c \div d
        ra == a - qa * b
        rc == c - qc * d
    IN  IF qa # qc THEN qa < qc
        ELSE IF rc = 0 THEN FALSE
        ELSE IF ra = 0 THEN TRUE
        ELSE LtFrac(d, rc, b, ra)

\* x < y as IEEE compares: FALSE whenever a NaN is involved.  Compared
\* finite values carry no power of pi.
Lt(x, y) ==
    IF IsNaN(x) \/ IsNaN(y) THEN FALSE
    ELSE IF IsFin(x) /\ IsFin(y) THEN
        CASE x.p = 0 /\ y.p = 0 -> LtFrac(x.n, x.d, y.n, y.d)
          [] x.n = 0 /\ y.p # 0 -> y.n > 0
          [] y.n = 0 /\ x.p # 0 -> x.n < 0
    ELSE IF IsFin(x) THEN y.n > 0
    ELSE IF IsFin(y) THEN x.n < 0
    ELSE x.n < y.n

Gt(x, y) == Lt(y, x)

Le(x, y) == (~IsNaN(x)) /\ (~IsNaN(y)) /\ ~Lt(y, x)

\* ------------------------------------------------------------------------
\* Library operations the program uses
\* ------------------------------------------------------------------------

\* np.pi
PI == Fin(1, 1, 1)

\* An exception in flight, as a value.
Raised(e) == [k |-> e, n |-> 0, d |-> 1, p |-> 0]

IsRaised(x) == x.k \notin {"fin", "inf", "nan"}

\* Division of two Python floats: raises ZeroDivisionError on a zero divisor.
PyDiv(x, y) == IF IsZero(y) THEN Raised("ZeroDivisionError") ELSE Div(x, y)

\* np.maximum(x, y): the larger, NaN if either is NaN.
Maximum(x, y) == IF IsNaN(x) \/ IsNaN(y) THEN NaN ELSE IF Lt(x, y) THEN y ELSE x

\* np.minimum(x, y)
Minimum(x, y) == IF IsNaN(x) \/ IsNaN(y) THEN NaN ELSE IF Lt(y, x) THEN y ELSE x

\* np.clip(x, lo, hi) = minimum(maximum(x, lo), hi)
Clip(x, lo, hi) == Minimum(Maximum(x, lo), hi)

\* np.max over a non-empty array.
RECURSIVE ArrayMax(_, _)
ArrayMax(a, len) ==
    IF len = 1 THEN a[1] ELSE Maximum(ArrayMax(a, len - 1), a[len])

\* Fault variant of linspace: start and stop are swapped.
linspace_swapped(start, stop, num) ==
    LET div   == num - 1
        delta == Sub(start, stop)
        step  == Div(delta, Q(div, 1))
        y     == [j \in 1..num |->
                    IF div > 0 THEN Add(Mul(Q(j - 1, 1), step), stop)
                    ELSE Add(Mul(Q(j - 1, 1), delta), stop)]
    IN  [j \in 1..num |-> IF num > 1 /\ j = num THEN start ELSE y[j]]

\* np.linspace(start, stop, num), endpoint=True, for num >= 0:
\* arange(num) * step + start with step = (stop - start) / (num - 1), the
\* last element then overwritten by stop; with a single sample no step
\* exists and the sample is start.
linspace(start, stop, num) ==
    LET div   == num - 1
        delta == Sub(stop, start)
        step  == Div(delta, Q(div, 1))
        y     == [j \in 1..num |->
                    IF div > 0 THEN Add(Mul(Q(j - 1, 1), step), start)
                    ELSE Add(Mul(Q(j - 1, 1), delta), start)]
    IN  [j \in 1..num |-> IF num > 1 /\ j = num THEN stop ELSE y[j]]

\* ------------------------------------------------------------------------
\* Module constants of bldc_model.py
\* ------------------------------------------------------------------------

KV_RPM_PER_V == Q(920, 1)

R_PHASE == Q(2, 10)

V_BUS == Q(148, 10)

I_NOLOAD == Q(8, 10)

CORE_LOSS_W_AT_BASE == Q(3, 1)

BASE_SPEED_RPM == Mul(KV_RPM_PER_V, V_BUS)

THERMAL_RESISTANCE_C_PER_W == Q(15, 100)

AMBIENT_TEMP_C == Q(27, 1)

N_POINTS == 200

\* The 1e-6 threshold on p_in.
P_IN_EPS == Q(1, 1000000)

\* ------------------------------------------------------------------------
\* Model functions
\* ------------------------------------------------------------------------

\* ke = 1 / (KV * (2 pi / 60)), on Python floats.
ke_from_kv(kv_rpm_per_v) ==
    PyDiv(Q(1, 1), Mul(kv_rpm_per_v, Div(Mul(Q(2, 1), PI), Q(60, 1))))

kt_from_ke(ke) == ke

\* omega_no_load * 60 / (2 pi), with omega_no_load = v_bus / ke
speed_rpm_no_load_of(v_bus, ke) ==
    Div(Mul(Div(v_bus, ke), Q(60, 1)), Mul(Q(2, 1), PI))

\* The element-wise array expressions of motor_model, at one element.
omega_of(speed_rpm) == Div(Mul(Mul(speed_rpm, Q(2, 1)), PI), Q(60, 1))

e_back_of(ke, omega) == Mul(ke, omega)

\* Fault variant of i_phase_of: the voltage drop is not divided by R.
i_phase_no_r(v_bus, e_back, r_phase) == Maximum(Sub(v_bus, e_back), Q(0, 1))

i_phase_of(v_bus, e_back, r_phase) ==
    Maximum(Div(Sub(v_bus, e_back), r_phase), Q(0, 1))

torque_of(kt, i_phase) == Mul(kt, i_phase)

p_in_of(v_bus, i_phase) == Mul(v_bus, i_phase)

p_mech_of(torque, omega) == Mul(torque, omega)

\* Fault variant of p_cu_of: the current is not squared.
p_cu_linear(i_phase, r_phase) == Mul(i_phase, r_phase)

\* i_phase ** 2 * r_phase (the exact product, formed as i * (i * r))
p_cu_of(i_phase, r_phase) == Mul(i_phase, Mul(i_phase, r_phase))

\* np.clip(speed_rpm / base_speed_rpm, 0.0, None)
speed_ratio_of(speed_rpm, base_speed_rpm) ==
    Maximum(Div(speed_rpm, base_speed_rpm), Q(0, 1))

\* Fault variant of p_core_of: the square taken over the whole product.
p_core_square_all(core_loss_at_base, speed_ratio) ==
    Mul(Mul(core_loss_at_base, speed_ratio), Mul(core_loss_at_base, speed_ratio))

p_core_of(core_loss_at_base, speed_ratio) ==
    Mul(core_loss_at_base, Mul(speed_ratio, speed_ratio))

\* Fault variant of p_loss_total_of: the core loss is subtracted.
p_loss_total_minus(p_cu, p_core) == Sub(p_cu, p_core)

p_loss_total_of(p_cu, p_core) == Add(p_cu, p_core)

\* Fault variant of eta_where: the quotient is taken without the threshold.
eta_where_unguarded(p_in, p_mech) == Div(p_mech, p_in)

\* np.where(p_in > 1e-6, p_mech / p_in, 0.0): the quotient is formed for
\* every element (errstate silences the warnings) and selected or dropped.
eta_where(p_in, p_mech) ==
    LET quotient == Div(p_mech, p_in)
    IN  IF Gt(p_in, P_IN_EPS) THEN quotient ELSE Q(0, 1)

eta_of(p_in, p_mech) == Clip(eta_where(p_in, p_mech), Q(0, 1), Q(1, 1))

\* np.min over a non-empty array.
RECURSIVE ArrayMin(_, _)
ArrayMin(a, len) ==
    IF len = 1 THEN a[1] ELSE Minimum(ArrayMin(a, len - 1), a[len])

\* Fault variant of p_loss_max_of: the minimum is taken.
p_loss_max_min(p_loss_total) ==
    IF Len(p_loss_total) = 0 THEN Raised("ValueError")
    ELSE ArrayMin(p_loss_total, Len(p_loss_total))

p_loss_max_of(p_loss_total) ==
    IF Len(p_loss_total) = 0 THEN Raised("ValueError")
    ELSE ArrayMax(p_loss_total, Len(p_loss_total))

\* Fault variant of delta_t_max_of: the loss is divided by R_th.
delta_t_max_div(p_loss_max) == Div(p_loss_max, THERMAL_RESISTANCE_C_PER_W)

delta_t_max_of(p_loss_max) == Mul(p_loss_max, THERMAL_RESISTANCE_C_PER_W)

t_case_max_of(delta_t_max) == Add(AMBIENT_TEMP_C, delta_t_max)

NoResult == [exc |-> "none", val |-> <<>>]

Throw(e) == [exc |-> e, val |-> <<>>]

\* Fault variant of motor_model: the no-load current is taken off the phase
\* current.
motor_model_noload(kv_rpm_per_v, r_phase, v_bus, i_noload, core_loss_at_base, base_speed_rpm, n_points) ==
    LET ke == ke_from_kv(kv_rpm_per_v)
        kt == kt_from_ke(ke)
        speed_rpm_no_load == speed_rpm_no_load_of(v_bus, ke)
        speed_rpm == linspace(Q(0, 1), speed_rpm_no_load, n_points)
        idx == 1..n_points
        omega == [j \in idx |-> omega_of(speed_rpm[j])]
        e_back == [j \in idx |-> e_back_of(ke, omega[j])]
        i_phase == [j \in idx |-> Sub(i_phase_of(v_bus, e_back[j], r_phase), i_noload)]
        torque == [j \in idx |-> torque_of(kt, i_phase[j])]
        p_in == [j \in idx |-> p_in_of(v_bus, i_phase[j])]
        p_mech == [j \in idx |-> p_mech_of(torque[j], omega[j])]
        p_cu == [j \in idx |-> p_cu_of(i_phase[j], r_phase)]
        speed_ratio == [j \in idx |-> speed_ratio_of(speed_rpm[j], base_speed_rpm)]
        p_core == [j \in idx |-> p_core_of(core_loss_at_base, speed_ratio[j])]
        p_loss_total == [j \in idx |-> p_loss_total_of(p_cu[j], p_core[j])]
        eta == [j \in idx |-> eta_of(p_in[j], p_mech[j])]
        p_loss_max == p_loss_max_of(p_loss_total)
        delta_t_max == delta_t_max_of(p_loss_max)
        t_case_max == t_case_max_of(delta_t_max)
    IN  IF IsRaised(ke) THEN Throw(ke.k)
        ELSE IF n_points < 0 THEN Throw("ValueError")
        ELSE IF IsRaised(p_loss_max) THEN Throw(p_loss_max.k)
        ELSE [exc |-> "none",
              val |-> [speed_rpm |-> speed_rpm,
                       omega |-> omega,
                       torque |-> torque,
                       current |-> i_phase,
                       p_in |-> p_in,
                       p_mech |-> p_mech,
                       p_cu |-> p_cu,
                       p_core |-> p_core,
                       p_loss_total |-> p_loss_total,
                       efficiency |-> eta,
                       speed_rpm_no_load |-> speed_rpm_no_load,
                       ke |-> ke,
                       kt |-> kt,
                       p_loss_max |-> p_loss_max,
                       delta_t_max |-> delta_t_max,
                       t_case_max |-> t_case_max]]

\* motor_model: the returned dict, or the exception that leaves it.
motor_model(kv_rpm_per_v, r_phase, v_bus, i_noload, core_loss_at_base, base_speed_rpm, n_points) ==
    LET ke == ke_from_kv(kv_rpm_per_v)
        kt == kt_from_ke(ke)
        speed_rpm_no_load == speed_rpm_no_load_of(v_bus, ke)
        speed_rpm == linspace(Q(0, 1), speed_rpm_no_load, n_points)
        idx == 1..n_points
        omega == [j \in idx |-> omega_of(speed_rpm[j])]
        e_back == [j \in idx |-> e_back_of(ke, omega[j])]
        i_phase == [j \in idx |-> i_phase_of(v_bus, e_back[j], r_phase)]
        torque == [j \in idx |-> torque_of(kt, i_phase[j])]
        p_in == [j \in idx |-> p_in_of(v_bus, i_phase[j])]
        p_mech == [j \in idx |-> p_mech_of(torque[j], omega[j])]
        p_cu == [j \in idx |-> p_cu_of(i_phase[j], r_phase)]
        speed_ratio == [j \in idx |-> speed_ratio_of(speed_rpm[j], base_speed_rpm)]
        p_core == [j \in idx |-> p_core_of(core_loss_at_base, speed_ratio[j])]
        p_loss_total == [j \in idx |-> p_loss_total_of(p_cu[j], p_core[j])]
        eta == [j \in idx |-> eta_of(p_in[j], p_mech[j])]
        p_loss_max == p_loss_max_of(p_loss_total)
        delta_t_max == delta_t_max_of(p_loss_max)
        t_case_max == t_case_max_of(delta_t_max)
    IN  IF IsRaised(ke) THEN Throw(ke.k)
        ELSE IF n_points < 0 THEN Throw("ValueError")
        ELSE IF IsRaised(p_loss_max) THEN Throw(p_loss_max.k)
        ELSE [exc |-> "none",
              val |-> [speed_rpm |-> speed_rpm,
                       omega |-> omega,
                       torque |-> torque,
                       current |-> i_phase,
                       p_in |-> p_in,
                       p_mech |-> p_mech,
                       p_cu |-> p_cu,
                       p_core |-> p_core,
                       p_loss_total |-> p_loss_total,
                       efficiency |-> eta,
                       speed_rpm_no_load |-> speed_rpm_no_load,
                       ke |-> ke,
                       kt |-> kt,
                       p_loss_max |-> p_loss_max,
                       delta_t_max |-> delta_t_max,
                       t_case_max |-> t_case_max]]

\* f"{x:.1f}": x rounded to tenths (ties to even), as a count of tenths.
Fmt1(x) ==
    LET t  == Mul(x, Q(10, 1))
        fl == t.n \div t.d
        r2 == 2 * (t.n - fl * t.d)
    IN  IF r2 < t.d THEN fl
        ELSE IF r2 > t.d THEN fl + 1
        ELSE IF fl % 2 = 0 THEN fl ELSE fl + 1

\* ------------------------------------------------------------------------
\* Inputs
\* ------------------------------------------------------------------------

MaxKv == 2

MaxR == 2

MaxV == 2

MaxCore == 2

MaxBase == 2

MaxN == 3

PairKv == 2

PairV == 2

PairR == 1

PairMaxINoLoad == 1

PairMaxCore == 2

PairMaxBase == 2

PairMaxN == 3

Args(kv, r, v, inl, core, base, n) ==
    [kv |-> kv, r |-> r, v |-> v, inl |-> inl, core |-> core, base |-> base, n |-> n]

\* The call main() makes.
MainArgs ==
    Args(KV_RPM_PER_V, R_PHASE, V_BUS, I_NOLOAD, CORE_LOSS_W_AT_BASE,
         BASE_SPEED_RPM, N_POINTS)

\* A resistance large enough for a positive p_in below the 1e-6 threshold.
HugeR == Q(1000000, 1)

\* Configurations a caller may pass, the invalid ones included.
Inputs ==
    { Args(Q(kv, 1), r, Q(v, 3), I_NOLOAD, Q(core, 1), Q(base, 1), n) :
        kv \in -1..MaxKv, r \in {Q(j, 2) : j \in -1..MaxR} \cup {HugeR},
        v \in -1..MaxV, core \in 0..MaxCore, base \in -1..MaxBase,
        n \in -1..MaxN }

\* The configuration constraints of the data model.
Valid(a) ==
    /\ Gt(a.kv, Q(0, 1))
    /\ Gt(a.r, Q(0, 1))
    /\ Gt(a.v, Q(0, 1))
    /\ Le(Q(0, 1), a.core)
    /\ Gt(a.base, Q(0, 1))
    /\ a.n >= 2

\* ------------------------------------------------------------------------
\* State machine: a caller invoking motor_model
\* ------------------------------------------------------------------------

VARIABLES args, pc, res, prev

vars == <<args, pc, res, prev>>

Init ==
    /\ args \in Inputs \cup {MainArgs}
    /\ pc = "call"
    /\ res = NoResult
    /\ prev = <<>>

\* One invocation of motor_model, from entry to return or raise.
Call ==
    /\ pc = "call"
    /\ res' = motor_model(args.kv, args.r, args.v, args.inl, args.core,
                          args.base, args.n)
    /\ pc' = IF res'.exc = "none" THEN "returned" ELSE "raised"
    /\ UNCHANGED <<args, prev>>

Next == Call

Spec == Init /\ [][Next]_vars

\* Configurations of two calls that are compared with each other.
PairInputs ==
    { Args(Q(PairKv, 1), Q(PairR, 2), Q(PairV, 3), Q(inl, 1), Q(core, 1), Q(base, 1), n) :
        inl \in 0..PairMaxINoLoad, core \in 0..PairMaxCore,
        base \in 1..PairMaxBase, n \in 2..PairMaxN }

InitPair ==
    /\ args \in PairInputs
    /\ pc = "call"
    /\ res = NoResult
    /\ prev = <<>>

\* The caller keeps the finished call and sets up a second one.
Reinvoke ==
    /\ pc # "call"
    /\ prev = <<>>
    /\ \E a \in PairInputs : args' = a
    /\ prev' = <<[args |-> args, res |-> res]>>
    /\ pc' = "call"
    /\ res' = NoResult

NextPair == Call \/ Reinvoke

SpecPair == InitPair /\ [][NextPair]_vars

\* ------------------------------------------------------------------------
\* Properties
\* ------------------------------------------------------------------------

Zero == Q(0, 1)

One == Q(1, 1)

\* The call returned its bundle for a valid configuration.
ValidReturn == pc = "returned" /\ Valid(args)

Samples == 1..args.n

\* C1: for every valid input, every sample has current >= 0, torque >= 0,
\* copper_loss >= 0, core_loss >= 0 and total_loss >= 0.
C1_NonNegative ==
    ValidReturn =>
        \A j \in Samples :
            /\ Le(Zero, res.val.current[j])
            /\ Le(Zero, res.val.torque[j])
            /\ Le(Zero, res.val.p_cu[j])
            /\ Le(Zero, res.val.p_core[j])
            /\ Le(Zero, res.val.p_loss_total[j])

\* A valid run with a positive and a zero current and a positive core loss.
C1_Witness ==
    /\ ValidReturn
    /\ \E j \in Samples : Gt(res.val.current[j], Zero) /\ Gt(res.val.torque[j], Zero)
    /\ \E j \in Samples : res.val.current[j] = Zero /\ Gt(res.val.p_core[j], Zero)

\* C2: for every valid input and sample, efficiency is in [0, 1]; it is
\* mech_power / input_power clamped to [0, 1] when input_power > 1e-6 and
\* exactly 0 when input_power <= 1e-6, so the quotient by a zero input power
\* never reaches the output.
C2_Efficiency ==
    ValidReturn =>
        \A j \in Samples :
            /\ Le(Zero, res.val.efficiency[j])
            /\ Le(res.val.efficiency[j], One)
            /\ Gt(res.val.p_in[j], P_IN_EPS) =>
                  res.val.efficiency[j] =
                      Clip(Div(res.val.p_mech[j], res.val.p_in[j]), Zero, One)
            /\ Le(res.val.p_in[j], P_IN_EPS) => res.val.efficiency[j] = Zero

\* A valid run with a sample whose input power is zero, one whose input
\* power is positive but below the threshold while mechanical power is
\* positive, both reported with efficiency 0.
C2_Witness ==
    /\ ValidReturn
    /\ \E j \in Samples : res.val.p_in[j] = Zero /\ res.val.efficiency[j] = Zero
    /\ \E j \in Samples :
            /\ Gt(res.val.p_in[j], Zero)
            /\ Le(res.val.p_in[j], P_IN_EPS)
            /\ Gt(res.val.p_mech[j], Zero)
            /\ res.val.efficiency[j] = Zero

\* C3: for every valid input the speed sweep has exactly sample_count
\* samples, is evenly spaced and non-decreasing, starts at 0 and ends at the
\* no-load speed, which is bus_voltage / back_emf_constant (rad/s), that is
\* speed_constant x bus_voltage in rpm.
C3_SpeedSweep ==
    ValidReturn =>
        /\ DOMAIN res.val.speed_rpm = 1..args.n
        /\ \A j \in 1..(args.n - 1) :
              /\ Le(res.val.speed_rpm[j], res.val.speed_rpm[j + 1])
              /\ Sub(res.val.speed_rpm[j + 1], res.val.speed_rpm[j])
                   = Sub(res.val.speed_rpm[2], res.val.speed_rpm[1])
        /\ res.val.speed_rpm[1] = Zero
        /\ res.val.speed_rpm[args.n] = res.val.speed_rpm_no_load
        /\ res.val.omega[args.n] = Div(args.v, res.val.ke)
        /\ res.val.speed_rpm_no_load = Mul(args.kv, args.v)

\* A valid run with at least three samples and a strictly increasing sweep.
C3_Witness ==
    /\ ValidReturn
    /\ args.n >= 3
    /\ Lt(res.val.speed_rpm[1], res.val.speed_rpm[2])
    /\ Lt(res.val.speed_rpm[2], res.val.speed_rpm[args.n])

\* C4: for every valid input the zero-speed (first) sample has
\* current == bus_voltage / phase_resistance, torque == torque_constant x
\* that current, mech_power == 0 and efficiency == 0.
C4_Stall ==
    ValidReturn =>
        /\ res.val.speed_rpm[1] = Zero
        /\ res.val.current[1] = Div(args.v, args.r)
        /\ res.val.torque[1] = Mul(res.val.kt, Div(args.v, args.r))
        /\ res.val.p_mech[1] = Zero
        /\ res.val.efficiency[1] = Zero

\* A valid run whose stall sample draws input power above the threshold
\* and a stall current that is not a whole number.
C4_Witness ==
    /\ ValidReturn
    /\ Gt(res.val.p_in[1], P_IN_EPS)
    /\ res.val.current[1].d # 1
    /\ Gt(res.val.torque[1], Zero)

\* C5: for every valid input, max_loss is the maximum of total_loss over
\* all samples (the stall sample included), delta_t == max_loss x
\* thermal_resistance and case_temp == ambient_temp + max_loss x
\* thermal_resistance.
C5_Thermal ==
    ValidReturn =>
        /\ \E j \in Samples : res.val.p_loss_total[j] = res.val.p_loss_max
        /\ \A j \in Samples : Le(res.val.p_loss_total[j], res.val.p_loss_max)
        /\ res.val.delta_t_max = Mul(res.val.p_loss_max, THERMAL_RESISTANCE_C_PER_W)
        /\ res.val.t_case_max =
              Add(AMBIENT_TEMP_C, Mul(res.val.p_loss_max, THERMAL_RESISTANCE_C_PER_W))

\* A valid run whose largest loss is at the stall sample alone.
C5_Witness ==
    /\ ValidReturn
    /\ res.val.p_loss_total[1] = res.val.p_loss_max
    /\ \A j \in Samples \ {1} : Lt(res.val.p_loss_total[j], res.val.p_loss_max)

\* Two finished calls: the earlier one kept in prev, the later one current.
TwoReturns == pc = "returned" /\ prev # <<>> /\ prev[1].res.exc = "none"

\* C6: for two runs with valid inputs that differ only in core_loss_at_base,
\* the second twice the first, every core_loss sample of the second run is
\* twice that of the first and every copper_loss sample is the same.
C6_CoreLossLinear ==
    (/\ TwoReturns
     /\ Valid(prev[1].args)
     /\ Valid(args)
     /\ args = [prev[1].args EXCEPT !.core = Mul(Q(2, 1), prev[1].args.core)]) =>
        \A j \in Samples :
            /\ res.val.p_core[j] = Mul(Q(2, 1), prev[1].res.val.p_core[j])
            /\ res.val.p_cu[j] = prev[1].res.val.p_cu[j]

\* Two valid runs, the second with twice the (positive) core_loss_at_base,
\* with a positive core loss and a positive copper loss in the sweep.
C6_Witness ==
    /\ TwoReturns
    /\ Valid(prev[1].args)
    /\ Gt(prev[1].args.core, Zero)
    /\ args = [prev[1].args EXCEPT !.core = Mul(Q(2, 1), prev[1].args.core)]
    /\ args.n >= 3
    /\ Gt(res.val.p_core[2], Zero)
    /\ Gt(res.val.p_cu[2], Zero)

\* C7 as stated: in the configuration main() uses, no_load_speed_rpm is
\* 13616.0, the stall current 74.0 A, the stall total_loss 1094.8 W and the
\* maximum of the sweep, delta_t 164.2 C and case_temp 191.2 C (one decimal).
C7_ScenarioAsStated ==
    (pc = "returned" /\ args = MainArgs) =>
        /\ Fmt1(res.val.speed_rpm_no_load) = 136160
        /\ Fmt1(res.val.current[1]) = 740
        /\ Fmt1(res.val.p_loss_total[1]) = 10948
        /\ res.val.p_loss_max = res.val.p_loss_total[1]
        /\ Fmt1(res.val.p_loss_max) = 10948
        /\ Fmt1(res.val.delta_t_max) = 1642
        /\ Fmt1(res.val.t_case_max) = 1912

\* C7 amended: in the configuration main() uses, no_load_speed_rpm is
\* 13616.0, the stall current 74.0 A, the stall total_loss 74^2 x 0.2 =
\* 1095.2 W and the maximum of the sweep, delta_t 164.3 C and case_temp
\* 191.3 C (one decimal).
C7_Scenario ==
    (pc = "returned" /\ args = MainArgs) =>
        /\ Fmt1(res.val.speed_rpm_no_load) = 136160
        /\ Fmt1(res.val.current[1]) = 740
        /\ res.val.p_loss_total[1] = Mul(Mul(Q(74, 1), Q(74, 1)), Q(2, 10))
        /\ Fmt1(res.val.p_loss_total[1]) = 10952
        /\ \A j \in Samples : Le(res.val.p_loss_total[j], res.val.p_loss_total[1])
        /\ res.val.p_loss_max = res.val.p_loss_total[1]
        /\ Fmt1(res.val.p_loss_max) = 10952
        /\ Fmt1(res.val.delta_t_max) = 1643
        /\ Fmt1(res.val.t_case_max) = 1913

\* main()'s call has returned its 200-sample bundle.
C7_Witness ==
    /\ pc = "returned"
    /\ args = MainArgs
    /\ DOMAIN res.val.p_loss_total = 1..N_POINTS
    /\ Gt(res.val.p_loss_max, Zero)

\* The configurations C8 calls invalid.
InvalidConfiguration(a) ==
    \/ Le(a.r, Zero)
    \/ Le(a.kv, Zero)
    \/ Le(a.v, Zero)
    \/ Le(a.base, Zero)
    \/ a.n < 2

\* C8: called with an invalid configuration (phase_resistance <= 0,
\* speed_constant <= 0, bus_voltage <= 0, base_speed_rpm <= 0 or
\* sample_count < 2), motor_model fails with an error and returns no bundle.
C8_FailFast ==
    (pc # "call" /\ InvalidConfiguration(args)) => pc = "raised"

\* C9: two runs whose inputs are equal except for no_load_current return
\* identical bundles (every sequence and every scalar).
C9_NoLoadCurrentInert ==
    (/\ TwoReturns
     /\ args = [prev[1].args EXCEPT !.inl = args.inl]) =>
        res = prev[1].res

\* Two runs that differ in no_load_current only.
C9_Witness ==
    /\ TwoReturns
    /\ args = [prev[1].args EXCEPT !.inl = args.inl]
    /\ args.inl # prev[1].args.inl
    /\ Valid(args)
    /\ Gt(res.val.p_loss_max, Zero)

\* C10: for every valid input and sample, input_power == mech_power +
\* copper_loss; mech_power and efficiency are the same in two valid runs that
\* differ only in core_loss_at_base and base_speed_rpm; and mech_power +
\* total_loss exceeds input_power wherever core_loss is positive.
C10_EnergyBalance ==
    /\ ValidReturn =>
          \A j \in Samples :
              /\ res.val.p_in[j] = Add(res.val.p_mech[j], res.val.p_cu[j])
              /\ Gt(res.val.p_core[j], Zero) =>
                    Gt(Add(res.val.p_mech[j], res.val.p_loss_total[j]), res.val.p_in[j])
    /\ (/\ TwoReturns
        /\ Valid(prev[1].args)
        /\ Valid(args)
        /\ args = [prev[1].args EXCEPT !.core = args.core, !.base = args.base]) =>
          /\ res.val.p_mech = prev[1].res.val.p_mech
          /\ res.val.efficiency = prev[1].res.val.efficiency

\* Two valid runs that differ in core_loss_at_base and in base_speed_rpm,
\* the later with positive mechanical power, copper loss and core loss at
\* one sample.
C10_Witness ==
    /\ TwoReturns
    /\ Valid(prev[1].args)
    /\ Valid(args)
    /\ args = [prev[1].args EXCEPT !.core = args.core, !.base = args.base]
    /\ args.core # prev[1].args.core
    /\ args.base # prev[1].args.base
    /\ \E j \in Samples :
          /\ Gt(res.val.p_mech[j], Zero)
          /\ Gt(res.val.p_cu[j], Zero)
          /\ Gt(res.val.p_core[j], Zero)

====
